---- MODULE Spec2Model ----
(***************************************************************************)
(* The request-orchestration engine of the FRL online proxy                *)
(* (src/src/proxy.rs): serve_req (one live request, end to end),           *)
(* forward_stored_requests (the batch replay pass) and call_cops (the      *)
(* upstream call with its deadline).  Every `.await` of the source is a    *)
(* step of its own, so handlers and the batch job interleave exactly at    *)
(* the suspension points of the code.                                      *)
(***************************************************************************)
EXTENDS Integers, Sequences, FiniteSets, TLC

\* ---------------------------------------------------------------- bounds
NumHandlers == 2
\* deliveries of the interrupt signal
MaxDeliveries == 3
MaxReqId == 2
\* the clock advances in steps of TickMs, at most MaxTicks times per call
TickMs == 59000
MaxTicks == 2

\* ------------------------------------------------------ program constants
\* proxy.rs:214  let timeout = 59000u64;
timeout == 59000

Handlers == 1..NumHandlers
Deliveries == 1..MaxDeliveries
ReqIds == 1..MaxReqId
\* bodies an upstream response may carry, statuses it may have
Bodies == {"b1", "b2"}
\* reasons the inbound parser may give for rejecting a request
Reasons == {"Missing request id"}

None == [some |-> FALSE]
Some(v) == [some |-> TRUE, val |-> v]

Min(a, b) == IF a <= b THEN a ELSE b

\* ------------------------------------------------------------- settings
\* conf.proxy.mode, conf.network.use_proxy; remote_host_ok says whether
\* conf.proxy.remote_host parses as a URI with a host (proxy.rs:152-169),
\* proxy_url_ok whether "http://{proxy_host}:{proxy_port}" parses as a URI
\* (proxy.rs:178-185)
Settings ==
    { s \in [proxy : [mode : {"Store", "Forward"}, remote_host_ok : BOOLEAN],
             network : [use_proxy : BOOLEAN, proxy_url_ok : BOOLEAN]] :
        s.network.use_proxy \/ s.network.proxy_url_ok }

\* --------------------------------------------------- network responses
\* a classification that takes every status from 200 up for a success
is_success_NoUpperBound(status) == 200 <= status

\* hyper's StatusCode::is_success, used at proxy.rs:71 and proxy.rs:117
is_success(status) == 200 <= status /\ status < 300

Bytes(b) == [bytes |-> b]
Json(code, msg) == [statusCode |-> code, message |-> msg]
JsonHeaders ==
    [content_type |-> "application/json;charset=UTF-8", server |-> "agent"]
CopsHeaders == [origin |-> "cops"]

\* a response received from the upstream
UpstreamResponse(s, b) ==
    [status |-> s, headers |-> CopsHeaders, body |-> Bytes(b)]

\* the responses the upstream may give: a license with status 200, or a
\* refusal with status 404
UpstreamResponses ==
    { UpstreamResponse(200, b) : b \in Bodies }
    \cup { UpstreamResponse(404, "not found") }

\* the 400 builder with the envelope of the 502 builders
bad_request_response_As502(err) ==
    [status |-> 400, headers |-> JsonHeaders, body |-> Json(502, err.reason)]

bad_request_response(err) ==
    [status |-> 400, headers |-> JsonHeaders, body |-> Json(400, err.reason)]

\* the 502 builder with the error text left out of the message
cops_failure_response_NoErrorText(err) ==
    [status |-> 502, headers |-> JsonHeaders,
     body |-> Json(502, "Failed to get a response from COPS")]

cops_failure_response(err) ==
    [status |-> 502, headers |-> JsonHeaders,
     body |-> Json(502, "Failed to get a response from COPS: " \o err)]

proxy_offline_response ==
    [status |-> 502, headers |-> JsonHeaders,
     body |-> Json(502,
        "Proxy is operating offline: request stored for later replay")]

\* ------------------------------------------ cops::Request, cops::Response
\* A raw inbound request: whether its body can be read off the wire, and
\* what the parser makes of it.
RawRequests ==
    { [body_ok |-> FALSE, valid |-> FALSE, request_id |-> 0, reason |-> ""] }
    \cup { [body_ok |-> TRUE, valid |-> FALSE, request_id |-> 0, reason |-> r] :
            r \in Reasons }
    \cup { [body_ok |-> TRUE, valid |-> TRUE, request_id |-> i, reason |-> ""] :
            i \in ReqIds }

CRequest_from_network(raw) ==
    IF raw.valid
    THEN [ok |-> TRUE, req |-> [request_id |-> raw.request_id]]
    ELSE [ok |-> FALSE, err |-> [reason |-> raw.reason]]

CResponse_from_network(r, body) ==
    [request_id |-> r.request_id, body |-> body]

CResponse_to_network(r) ==
    [status |-> 200,
     headers |-> [content_type |-> "application/json;charset=UTF-8",
                  server |-> "agent", x_request_id |-> r.request_id],
     body |-> r.body]

\* ---------------------------------------------------------------- cache
EmptyCache == [requests |-> {}, responses |-> [i \in ReqIds |-> None]]

store_request(c, r) == [c EXCEPT !.requests = @ \cup {r.request_id}]

store_response(c, r, resp) ==
    [c EXCEPT !.responses[r.request_id] = Some(resp)]

fetch_response(c, r) == c.responses[r.request_id]

RECURSIVE SortedSeq(_)
SortedSeq(S) ==
    IF S = {} THEN << >>
    ELSE LET m == CHOOSE x \in S : \A y \in S : x <= y
         IN << m >> \o SortedSeq(S \ {m})

\* pending for replay: stored requests with no cached response
fetch_forwarding_requests(c) ==
    LET ids == SortedSeq({ i \in c.requests : ~c.responses[i].some })
    IN [k \in 1..Len(ids) |-> [request_id |-> ids[k]]]

\* ------------------------------------------------------------ call_cops
\* proxy.rs:152-155: an unparsable remote_host panics
call_cops_panics(c) == ~c.proxy.remote_host_ok

\* The results one invocation of call_cops may resolve to once `elapsed`
\* milliseconds have passed since the request was issued.
call_cops(c, e) ==
    IF c.network.use_proxy /\ ~c.network.proxy_url_ok
    THEN { [ok |-> FALSE, err |-> "Cannot parse upstream proxy URL"] }
    ELSE { [ok |-> TRUE, resp |-> r] : r \in UpstreamResponses }
         \cup { [ok |-> FALSE, err |-> "Network error"] }
         \cup (IF c.network.use_proxy
               THEN { [ok |-> FALSE, err |-> "Failed to create proxy connector"] }
               ELSE {})
         \cup (IF e >= timeout
               THEN { [ok |-> FALSE,
                       err |-> "Timeout - no response received in "
                               \o ToString(timeout) \o " milliseconds"] }
               ELSE {})

\* ------------------------------------------------- transport selection
\* what conf.proxy.remote_host parsed to: scheme_str(), host(), port()
Schemes == { None, Some("http"), Some("https"), Some("ftp") }
Ports == { None, Some(8443) }
RemoteHosts == [scheme : Schemes, host : {"cops.example"}, port : Ports]

\* the settings call_cops reads on its way to a connector
TransportSettings ==
    { s \in [proxy : [mode : {"Forward"}, remote_host_ok : {TRUE},
                      remote_host : RemoteHosts],
             network : [use_proxy : BOOLEAN, proxy_url_ok : BOOLEAN,
                        use_basic_auth : BOOLEAN]] :
        s.network.use_proxy \/ s.network.proxy_url_ok }

\* proxy.rs:157-161: if no scheme is specified, assume http
cops_scheme(uri) == IF uri.scheme = Some("https") THEN "https" ELSE "http"

\* proxy.rs:163-169
cops_host(uri) ==
    IF uri.port.some THEN uri.host \o ":" \o ToString(uri.port.val)
    ELSE uri.host

\* call_cops trying the scheme before the proxy toggle
call_cops_transport_SchemeFirst(n, scheme) ==
    IF scheme = "https"
    THEN { [ok |-> TRUE, connector |-> "HttpsConnector",
            authorization |-> FALSE] }
    ELSE IF n.use_proxy
    THEN IF ~n.proxy_url_ok
         THEN { [ok |-> FALSE, err |-> "Cannot parse upstream proxy URL"] }
         ELSE { [ok |-> TRUE, connector |-> "ProxyConnector",
                 authorization |-> n.use_basic_auth],
                [ok |-> FALSE, err |-> "Failed to create proxy connector"] }
    ELSE { [ok |-> TRUE, connector |-> "HttpConnector",
            authorization |-> FALSE] }

\* proxy.rs:176-212: the connector the request goes through, or the error
\* that ends the call before any request is issued
call_cops_transport(n, scheme) ==
    IF n.use_proxy
    THEN IF ~n.proxy_url_ok
         THEN { [ok |-> FALSE, err |-> "Cannot parse upstream proxy URL"] }
         ELSE { [ok |-> TRUE, connector |-> "ProxyConnector",
                 authorization |-> n.use_basic_auth],
                [ok |-> FALSE, err |-> "Failed to create proxy connector"] }
    ELSE IF scheme = "https"
    THEN { [ok |-> TRUE, connector |-> "HttpsConnector",
            authorization |-> FALSE] }
    ELSE { [ok |-> TRUE, connector |-> "HttpConnector",
            authorization |-> FALSE] }

\* ---------------------------------------------------------------- state
VARIABLES
    conf,       \* the Settings snapshot
    cache,      \* the Cache Mediator's content
    pc,         \* per handler: where serve_req stands
    parse,      \* per handler: the parser's result
    net_resp,   \* per handler: the response entering line 69
    cops_err,   \* per handler: the error call_cops returned, if any
    resp,       \* per handler: the response serve_req returned
    ops,        \* per handler: cache and upstream operations performed
    elapsed,    \* per handler: ms since its upstream call was issued
    bpc,        \* forward_stored_requests: where it stands
    requests,   \* the pending requests it fetched
    idx,        \* the entry it is at
    successes, failures,
    bnet_resp,  \* the response of the current entry
    outcomes,   \* how each entry's upstream call ended
    bwrites,    \* request ids the pass has written a response for
    belapsed,   \* ms since the current entry's call was issued
    call_once,  \* ctrl_c_handler: the Mutex<Option<F>>'s content
    mutex,      \* the delivery holding the Mutex, 0 when it is free
    spc,        \* per delivery: where the signal closure stands
    taken,      \* per delivery: what take() gave it
    fired,      \* times the shutdown action f has run
    logged,     \* times "Already sent signal" was logged
    tpc,        \* call_cops: where the building of its request stands
    net_req,    \* the outbound request, addressed at scheme and host
    client      \* the connector the request is issued through

hvars == << pc, parse, net_resp, cops_err, resp, ops, elapsed >>
bvars == << bpc, requests, idx, successes, failures, bnet_resp, outcomes,
            bwrites, belapsed >>
cvars == << call_once, mutex, spc, taken, fired, logged >>
tvars == << tpc, net_req, client >>
vars == << conf, cache, hvars, bvars, cvars, tvars >>

\* proxy.rs:31: the handler is installed with the action in place
CtrlCInstalled ==
    /\ call_once = Some("f")
    /\ mutex = 0
    /\ spc = [d \in Deliveries |-> "idle"]
    /\ taken = [d \in Deliveries |-> None]
    /\ fired = 0
    /\ logged = 0

\* call_cops has not started building a request
TransportIdle ==
    /\ tpc = "start"
    /\ net_req = None
    /\ client = None

\* nothing received, nothing cached, no pass started
ProxyIdle ==
    /\ cache = EmptyCache
    /\ pc = [h \in Handlers |-> "idle"]
    /\ parse = [h \in Handlers |-> None]
    /\ net_resp = [h \in Handlers |-> None]
    /\ cops_err = [h \in Handlers |-> None]
    /\ resp = [h \in Handlers |-> None]
    /\ ops = [h \in Handlers |-> << >>]
    /\ elapsed = [h \in Handlers |-> 0]
    /\ bpc = "idle"
    /\ requests = << >>
    /\ idx = 0
    /\ successes = 0
    /\ failures = 0
    /\ bnet_resp = None
    /\ outcomes = << >>
    /\ bwrites = {}
    /\ belapsed = 0

Init ==
    /\ conf \in Settings
    /\ CtrlCInstalled
    /\ TransportIdle
    /\ ProxyIdle

Req(h) == parse[h].val.req

\* --------------------------------------------------------- serve_req
\* proxy.rs:47-58: read the inbound body, parse, reject or go on to store
ServeReceive(h) ==
    /\ pc[h] = "idle"
    /\ \E raw \in RawRequests :
        IF ~raw.body_ok
        THEN /\ pc' = [pc EXCEPT ![h] = "error"]
             /\ UNCHANGED << parse, resp >>
        ELSE LET p == CRequest_from_network(raw) IN
             /\ parse' = [parse EXCEPT ![h] = Some(p)]
             /\ IF p.ok
                THEN /\ pc' = [pc EXCEPT ![h] = "store_request"]
                     /\ UNCHANGED resp
                ELSE /\ pc' = [pc EXCEPT ![h] = "done"]
                     /\ resp' = [resp EXCEPT ![h] =
                                    Some(bad_request_response(p.err))]
    /\ UNCHANGED << conf, cvars, tvars, cache, net_resp, cops_err, ops, elapsed,
                    bvars >>

\* serve_req with the upstream call issued while store_request has not
\* completed
ServeStoreRequest_CallBeforeStore(h) ==
    /\ pc[h] = "store_request"
    /\ IF conf.proxy.mode = "Store"
       THEN /\ cache' = store_request(cache, Req(h))
            /\ net_resp' = [net_resp EXCEPT ![h] = Some(proxy_offline_response)]
            /\ pc' = [pc EXCEPT ![h] = "read_body"]
            /\ ops' = [ops EXCEPT ![h] = Append(@, "store_request")]
       ELSE /\ pc' = [pc EXCEPT ![h] = "call_cops"]
            /\ ops' = [ops EXCEPT ![h] = Append(@, "call_cops")]
            /\ UNCHANGED << cache, net_resp >>
    /\ elapsed' = [elapsed EXCEPT ![h] = 0]
    /\ UNCHANGED << conf, cvars, tvars, parse, cops_err, resp, bvars >>

\* serve_req with the mode test left out: every mode issues the call
ServeStoreRequest_ModeIgnored(h) ==
    /\ pc[h] = "store_request"
    /\ cache' = store_request(cache, Req(h))
    /\ pc' = [pc EXCEPT ![h] = "call_cops"]
    /\ ops' = [ops EXCEPT ![h] = @ \o << "store_request", "call_cops" >>]
    /\ elapsed' = [elapsed EXCEPT ![h] = 0]
    /\ UNCHANGED << conf, cvars, tvars, parse, net_resp, cops_err, resp, bvars >>

\* serve_req dropping the cached response when it stores the request anew
ServeStoreRequest_ClearsResponse(h) ==
    /\ pc[h] = "store_request"
    /\ cache' = [store_request(cache, Req(h)) EXCEPT
                    !.responses[Req(h).request_id] = None]
    /\ IF conf.proxy.mode = "Store"
       THEN /\ net_resp' = [net_resp EXCEPT ![h] = Some(proxy_offline_response)]
            /\ pc' = [pc EXCEPT ![h] = "read_body"]
            /\ ops' = [ops EXCEPT ![h] = Append(@, "store_request")]
       ELSE /\ pc' = [pc EXCEPT ![h] = "call_cops"]
            /\ ops' = [ops EXCEPT ![h] = @ \o << "store_request", "call_cops" >>]
            /\ UNCHANGED net_resp
    /\ elapsed' = [elapsed EXCEPT ![h] = 0]
    /\ UNCHANGED << conf, cvars, tvars, parse, cops_err, resp, bvars >>

\* proxy.rs:59-64: store_request completes; Store mode takes the offline
\* response, any other mode issues the upstream call
ServeStoreRequest(h) ==
    /\ pc[h] = "store_request"
    /\ cache' = store_request(cache, Req(h))
    /\ IF conf.proxy.mode = "Store"
       THEN /\ net_resp' = [net_resp EXCEPT ![h] = Some(proxy_offline_response)]
            /\ pc' = [pc EXCEPT ![h] = "read_body"]
            /\ ops' = [ops EXCEPT ![h] = Append(@, "store_request")]
       ELSE /\ pc' = [pc EXCEPT ![h] = "call_cops"]
            /\ ops' = [ops EXCEPT ![h] = @ \o << "store_request", "call_cops" >>]
            /\ UNCHANGED net_resp
    /\ elapsed' = [elapsed EXCEPT ![h] = 0]
    /\ UNCHANGED << conf, cvars, tvars, parse, cops_err, resp, bvars >>

\* serve_req answering an upstream error with the offline response
ServeCallCops_ErrorAsOffline(h) ==
    /\ pc[h] = "call_cops"
    /\ IF call_cops_panics(conf)
       THEN /\ pc' = [pc EXCEPT ![h] = "panic"]
            /\ UNCHANGED << net_resp, cops_err >>
       ELSE /\ \E r \in call_cops(conf, elapsed[h]) :
                IF r.ok
                THEN /\ net_resp' = [net_resp EXCEPT ![h] = Some(r.resp)]
                     /\ UNCHANGED cops_err
                ELSE /\ net_resp' = [net_resp EXCEPT ![h] =
                                        Some(proxy_offline_response)]
                     /\ cops_err' = [cops_err EXCEPT ![h] = Some(r.err)]
            /\ pc' = [pc EXCEPT ![h] = "read_body"]
    /\ UNCHANGED << conf, cvars, tvars, cache, parse, resp, ops, elapsed, bvars >>

\* proxy.rs:64-67: call_cops resolves, to a response or to an error that
\* becomes the synthesized 502
ServeCallCops(h) ==
    /\ pc[h] = "call_cops"
    /\ IF call_cops_panics(conf)
       THEN /\ pc' = [pc EXCEPT ![h] = "panic"]
            /\ UNCHANGED << net_resp, cops_err >>
       ELSE /\ \E r \in call_cops(conf, elapsed[h]) :
                IF r.ok
                THEN /\ net_resp' = [net_resp EXCEPT ![h] = Some(r.resp)]
                     /\ UNCHANGED cops_err
                ELSE /\ net_resp' = [net_resp EXCEPT ![h] =
                                        Some(cops_failure_response(r.err))]
                     /\ cops_err' = [cops_err EXCEPT ![h] = Some(r.err)]
            /\ pc' = [pc EXCEPT ![h] = "read_body"]
    /\ UNCHANGED << conf, cvars, tvars, cache, parse, resp, ops, elapsed, bvars >>

\* whether the response is one received from the upstream (its body still
\* has to come over the wire) and not one built in memory
FromUpstream(r) == r.some /\ r.val.headers = CopsHeaders

\* serve_req consulting the cache whatever the status
ServeReadBody_LookupFirst(h) ==
    /\ pc[h] = "read_body"
    /\ \/ /\ pc' = [pc EXCEPT ![h] = "fetch_response"]
       \/ /\ FromUpstream(net_resp[h])
          /\ pc' = [pc EXCEPT ![h] = "error"]
    /\ elapsed' = [elapsed EXCEPT ![h] = 0]
    /\ UNCHANGED << conf, cvars, tvars, cache, parse, net_resp, cops_err, resp, ops,
                    bvars >>

\* proxy.rs:69-71,84: the response body is collected (an upstream body may
\* fail on the wire, `?` then returns the error), then the status decides
ServeReadBody(h) ==
    /\ pc[h] = "read_body"
    /\ \/ /\ pc' = [pc EXCEPT ![h] =
                IF is_success(net_resp[h].val.status)
                THEN "store_response" ELSE "fetch_response"]
       \/ /\ FromUpstream(net_resp[h])
          /\ pc' = [pc EXCEPT ![h] = "error"]
    /\ elapsed' = [elapsed EXCEPT ![h] = 0]
    /\ UNCHANGED << conf, cvars, tvars, cache, parse, net_resp, cops_err, resp, ops,
                    bvars >>

\* serve_req returning the response rebuilt from its cached form in place
\* of the upstream's own
ServeStoreResponse_ReturnsRebuilt(h) ==
    /\ pc[h] = "store_response"
    /\ cache' = store_response(cache, Req(h),
                    CResponse_from_network(Req(h), net_resp[h].val.body))
    /\ ops' = [ops EXCEPT ![h] = Append(@, "store_response")]
    /\ resp' = [resp EXCEPT ![h] = Some(CResponse_to_network(
                    CResponse_from_network(Req(h), net_resp[h].val.body)))]
    /\ pc' = [pc EXCEPT ![h] = "done"]
    /\ UNCHANGED << conf, cvars, tvars, parse, net_resp, cops_err, elapsed, bvars >>

\* proxy.rs:80-83: cache the response, return the upstream response
ServeStoreResponse(h) ==
    /\ pc[h] = "store_response"
    /\ cache' = store_response(cache, Req(h),
                    CResponse_from_network(Req(h), net_resp[h].val.body))
    /\ ops' = [ops EXCEPT ![h] = Append(@, "store_response")]
    /\ resp' = [resp EXCEPT ![h] = net_resp[h]]
    /\ pc' = [pc EXCEPT ![h] = "done"]
    /\ UNCHANGED << conf, cvars, tvars, parse, net_resp, cops_err, elapsed, bvars >>

\* serve_req without the cache fallback: the failure is returned as it is
ServeFetchResponse_NoFallback(h) ==
    /\ pc[h] = "fetch_response"
    /\ resp' = [resp EXCEPT ![h] = net_resp[h]]
    /\ ops' = [ops EXCEPT ![h] = Append(@, "fetch_response")]
    /\ pc' = [pc EXCEPT ![h] = "done"]
    /\ UNCHANGED << conf, cvars, tvars, cache, parse, net_resp, cops_err, elapsed, bvars >>

\* serve_req falling back to the cache after a transport error only, not
\* after a failure status
ServeFetchResponse_FallbackOnErrorOnly(h) ==
    /\ pc[h] = "fetch_response"
    /\ LET f == fetch_response(cache, Req(h)) IN
        resp' = [resp EXCEPT ![h] =
                    IF f.some /\ cops_err[h].some
                    THEN Some(CResponse_to_network(f.val))
                    ELSE net_resp[h]]
    /\ ops' = [ops EXCEPT ![h] = Append(@, "fetch_response")]
    /\ pc' = [pc EXCEPT ![h] = "done"]
    /\ UNCHANGED << conf, cvars, tvars, cache, parse, net_resp, cops_err, elapsed, bvars >>

\* proxy.rs:84-98: no success: the cached response if there is one, else
\* the failure as it is
ServeFetchResponse(h) ==
    /\ pc[h] = "fetch_response"
    /\ LET f == fetch_response(cache, Req(h)) IN
        resp' = [resp EXCEPT ![h] =
                    IF f.some THEN Some(CResponse_to_network(f.val))
                    ELSE net_resp[h]]
    /\ ops' = [ops EXCEPT ![h] = Append(@, "fetch_response")]
    /\ pc' = [pc EXCEPT ![h] = "done"]
    /\ UNCHANGED << conf, cvars, tvars, cache, parse, net_resp, cops_err, elapsed, bvars >>

\* Time passes for a handler waiting on the upstream.  Inside call_cops
\* tokio::time::timeout (proxy.rs:220) bounds the wait: the clock does not
\* pass the deadline without the timeout being ready.  The body read of
\* proxy.rs:70 is outside that timeout.
ServeTick(h) ==
    /\ \/ /\ pc[h] = "call_cops"
          /\ elapsed[h] < timeout
          /\ elapsed' = [elapsed EXCEPT ![h] = Min(@ + TickMs, timeout)]
       \/ /\ pc[h] = "read_body"
          /\ FromUpstream(net_resp[h])
          /\ elapsed[h] < MaxTicks * TickMs
          /\ elapsed' = [elapsed EXCEPT ![h] = @ + TickMs]
    /\ UNCHANGED << conf, cvars, tvars, cache, pc, parse, net_resp, cops_err, resp,
                    ops, bvars >>

\* ------------------------------------------- forward_stored_requests
\* the loop moves to the next entry, or the pass ends (proxy.rs:111,145)
BatchAdvance ==
    IF idx = Len(requests)
    THEN /\ bpc' = "done"
         /\ UNCHANGED idx
    ELSE /\ bpc' = "call_cops"
         /\ idx' = idx + 1

\* forward_stored_requests making no upstream call in Store mode
BatchFetch_HonoursStoreMode ==
    /\ bpc = "idle"
    /\ requests' = fetch_forwarding_requests(cache)
    /\ IF Len(requests') = 0 \/ conf.proxy.mode = "Store"
       THEN /\ bpc' = "done"
            /\ idx' = 0
       ELSE /\ bpc' = "call_cops"
            /\ idx' = 1
    /\ belapsed' = 0
    /\ UNCHANGED << conf, cvars, tvars, cache, hvars, successes, failures,
                    bnet_resp, outcomes, bwrites >>

\* proxy.rs:104-111: fetch the pending requests; none: return at once
BatchFetch ==
    /\ bpc = "idle"
    /\ requests' = fetch_forwarding_requests(cache)
    /\ IF Len(requests') = 0
       THEN /\ bpc' = "done"
            /\ idx' = 0
       ELSE /\ bpc' = "call_cops"
            /\ idx' = 1
    /\ belapsed' = 0
    /\ UNCHANGED << conf, cvars, tvars, cache, hvars, successes, failures, bnet_resp,
                    outcomes, bwrites >>

\* forward_stored_requests counting an entry that got no response as a
\* failure
BatchCallCops_ErrorCountsAsFailure ==
    /\ bpc = "call_cops"
    /\ IF call_cops_panics(conf)
       THEN /\ bpc' = "panic"
            /\ UNCHANGED << idx, belapsed, bnet_resp, outcomes, failures >>
       ELSE \E r \in call_cops(conf, belapsed) :
        /\ outcomes' = Append(outcomes,
              [request_id |-> requests[idx].request_id, ok |-> r.ok,
               status |-> IF r.ok THEN r.resp.status ELSE 0])
        /\ IF r.ok
           THEN /\ bnet_resp' = Some(r.resp)
                /\ bpc' = "read_body"
                /\ UNCHANGED << idx, belapsed, failures >>
           ELSE /\ BatchAdvance
                /\ failures' = failures + 1
                /\ belapsed' = 0
                /\ UNCHANGED bnet_resp
    /\ UNCHANGED << conf, cvars, tvars, cache, hvars, requests, successes, bwrites >>

\* proxy.rs:113-114,140-142: call_cops resolves for the current entry; an
\* error is logged and the loop goes on
BatchCallCops ==
    /\ bpc = "call_cops"
    /\ IF call_cops_panics(conf)
       THEN /\ bpc' = "panic"
            /\ UNCHANGED << idx, belapsed, bnet_resp, outcomes, failures >>
       ELSE \E r \in call_cops(conf, belapsed) :
        /\ outcomes' = Append(outcomes,
              [request_id |-> requests[idx].request_id, ok |-> r.ok,
               status |-> IF r.ok THEN r.resp.status ELSE 0])
        /\ IF r.ok
           THEN /\ bnet_resp' = Some(r.resp)
                /\ bpc' = "read_body"
                /\ UNCHANGED << idx, belapsed, failures >>
           ELSE /\ BatchAdvance
                /\ UNCHANGED failures
                /\ belapsed' = 0
                /\ UNCHANGED bnet_resp
    /\ UNCHANGED << conf, cvars, tvars, cache, hvars, requests, successes, bwrites >>

\* forward_stored_requests caching whatever response it got
BatchReadBody_StoresFailures ==
    /\ bpc = "read_body"
    /\ \/ /\ is_success(bnet_resp.val.status)
          /\ bpc' = "store_response"
          /\ UNCHANGED << idx, failures, cache >>
       \/ /\ ~is_success(bnet_resp.val.status)
          /\ cache' = store_response(cache, requests[idx],
                CResponse_from_network(requests[idx], bnet_resp.val.body))
          /\ failures' = failures + 1
          /\ BatchAdvance
       \/ /\ bpc' = "panic"
          /\ UNCHANGED << idx, failures, cache >>
    /\ belapsed' = 0
    /\ UNCHANGED << conf, cvars, tvars, hvars, requests, successes, bnet_resp,
                    outcomes, bwrites >>

\* proxy.rs:115-117,129-138: the body is collected (`unwrap`: a body that
\* fails on the wire panics); a failure status is counted
BatchReadBody ==
    /\ bpc = "read_body"
    /\ \/ /\ is_success(bnet_resp.val.status)
          /\ bpc' = "store_response"
          /\ UNCHANGED << idx, failures >>
       \/ /\ ~is_success(bnet_resp.val.status)
          /\ failures' = failures + 1
          /\ BatchAdvance
       \/ /\ bpc' = "panic"
          /\ UNCHANGED << idx, failures >>
    /\ belapsed' = 0
    /\ UNCHANGED << conf, cvars, tvars, cache, hvars, requests, successes, bnet_resp,
                    outcomes, bwrites >>

\* proxy.rs:126-128: cache the response, count the success
BatchStoreResponse ==
    /\ bpc = "store_response"
    /\ cache' = store_response(cache, requests[idx],
                    CResponse_from_network(requests[idx], bnet_resp.val.body))
    /\ bwrites' = bwrites \cup {requests[idx].request_id}
    /\ successes' = successes + 1
    /\ BatchAdvance
    /\ UNCHANGED << conf, cvars, tvars, hvars, requests, failures, bnet_resp, outcomes,
                    belapsed >>

\* time passes for the batch job, as for a handler
BatchTick ==
    /\ \/ /\ bpc = "call_cops"
          /\ belapsed < timeout
          /\ belapsed' = Min(belapsed + TickMs, timeout)
       \/ /\ bpc = "read_body"
          /\ belapsed < MaxTicks * TickMs
          /\ belapsed' = belapsed + TickMs
    /\ UNCHANGED << conf, cvars, tvars, cache, hvars, bpc, requests, idx, successes,
                    failures, bnet_resp, outcomes, bwrites >>

Next ==
    \/ \E h \in Handlers : ServeReceive(h)
    \/ \E h \in Handlers : ServeStoreRequest(h)
    \/ \E h \in Handlers : ServeCallCops(h)
    \/ \E h \in Handlers : ServeReadBody(h)
    \/ \E h \in Handlers : ServeStoreResponse(h)
    \/ \E h \in Handlers : ServeFetchResponse(h)
    \/ \E h \in Handlers : ServeTick(h)
    \/ BatchFetch
    \/ BatchCallCops
    \/ BatchReadBody
    \/ BatchStoreResponse
    \/ BatchTick

Spec == Init /\ [][Next]_vars

\* ------------------------------------------------------- ctrl_c_handler
\* The closure of proxy.rs:33-40, run once per delivery of the signal;
\* deliveries may overlap.  `call_once.lock().unwrap().take()` is: acquire
\* the Mutex, read the Option, leave None in its place; the guard is a
\* temporary of the `if let` and is dropped at the end of the statement.
proxy_vars == << conf, cache, hvars, bvars >>

\* a signal is delivered: the closure starts
Signal(d) ==
    /\ spc[d] = "idle"
    /\ spc' = [spc EXCEPT ![d] = "lock"]
    /\ UNCHANGED << proxy_vars, tvars, call_once, mutex, taken, fired, logged >>

\* the closure taking the Option without waiting for the Mutex
SignalLock_NoMutex(d) ==
    /\ spc[d] = "lock"
    /\ mutex' = d
    /\ spc' = [spc EXCEPT ![d] = "take_read"]
    /\ UNCHANGED << proxy_vars, tvars, call_once, taken, fired, logged >>

\* proxy.rs:34 call_once.lock()
SignalLock(d) ==
    /\ spc[d] = "lock"
    /\ mutex = 0
    /\ mutex' = d
    /\ spc' = [spc EXCEPT ![d] = "take_read"]
    /\ UNCHANGED << proxy_vars, tvars, call_once, taken, fired, logged >>

\* proxy.rs:34 take(): read the Option
SignalTakeRead(d) ==
    /\ spc[d] = "take_read"
    /\ taken' = [taken EXCEPT ![d] = call_once]
    /\ spc' = [spc EXCEPT ![d] = "take_write"]
    /\ UNCHANGED << proxy_vars, tvars, call_once, mutex, fired, logged >>

\* proxy.rs:34 take(): leave None behind
SignalTakeWrite(d) ==
    /\ spc[d] = "take_write"
    /\ call_once' = None
    /\ spc' = [spc EXCEPT ![d] = "run"]
    /\ UNCHANGED << proxy_vars, tvars, mutex, taken, fired, logged >>

\* proxy.rs:34-39: Some(f): run f; None: log that shutdown was requested
SignalRun(d) ==
    /\ spc[d] = "run"
    /\ IF taken[d].some
       THEN fired' = fired + 1 /\ UNCHANGED logged
       ELSE logged' = logged + 1 /\ UNCHANGED fired
    /\ spc' = [spc EXCEPT ![d] = "unlock"]
    /\ UNCHANGED << proxy_vars, tvars, call_once, mutex, taken >>

\* proxy.rs:39: the guard is dropped
SignalUnlock(d) ==
    /\ spc[d] = "unlock"
    /\ mutex' = IF mutex = d THEN 0 ELSE mutex
    /\ spc' = [spc EXCEPT ![d] = "done"]
    /\ UNCHANGED << proxy_vars, tvars, call_once, taken, fired, logged >>

\* one fixed Settings snapshot: the handler does not read it
CtrlCInit ==
    /\ Init
    /\ conf = [proxy |-> [mode |-> "Forward", remote_host_ok |-> TRUE],
               network |-> [use_proxy |-> FALSE, proxy_url_ok |-> TRUE]]

CtrlCNext ==
    \/ \E d \in Deliveries : Signal(d)
    \/ \E d \in Deliveries : SignalLock(d)
    \/ \E d \in Deliveries : SignalTakeRead(d)
    \/ \E d \in Deliveries : SignalTakeWrite(d)
    \/ \E d \in Deliveries : SignalRun(d)
    \/ \E d \in Deliveries : SignalUnlock(d)

CtrlCSpec == CtrlCInit /\ [][CtrlCNext]_vars

\* --------------------------------------------- call_cops, step by step
\* The building of one outbound request, for every remote_host and network
\* setting.
other_vars == << cache, hvars, bvars, cvars >>

\* proxy.rs:152-175: resolve scheme and host, address the request
CallCopsResolve ==
    /\ tpc = "start"
    /\ net_req' = Some([scheme |-> cops_scheme(conf.proxy.remote_host),
                        host |-> cops_host(conf.proxy.remote_host),
                        proxy_authorization |-> FALSE])
    /\ tpc' = "resolved"
    /\ UNCHANGED << conf, other_vars, client >>

\* proxy.rs:176-212: build the connector; on the proxy path the headers
\* the proxy wants on a plain-http request are merged into the request
\* (lines 198-200)
CallCopsConnect ==
    /\ tpc = "resolved"
    /\ \E t \in call_cops_transport(conf.network, net_req.val.scheme) :
        /\ client' = Some(t)
        /\ net_req' = IF t.ok /\ t.connector = "ProxyConnector"
                         /\ net_req.val.scheme = "http"
                      THEN Some([net_req.val EXCEPT
                                  !.proxy_authorization = t.authorization])
                      ELSE net_req
    /\ tpc' = "done"
    /\ UNCHANGED << conf, other_vars >>

TransportInit ==
    /\ conf \in TransportSettings
    /\ CtrlCInstalled
    /\ TransportIdle
    /\ ProxyIdle

TransportNext ==
    \/ CallCopsResolve
    \/ CallCopsConnect

TransportSpec == TransportInit /\ [][TransportNext]_vars

\* ------------------------------------------------------------ properties
InOps(h, op) == \E k \in 1..Len(ops[h]) : ops[h][k] = op
Parsed(h) == parse[h].some /\ parse[h].val.ok
Rejected(h) == parse[h].some /\ ~parse[h].val.ok
SuccessStatus(r) == r.status \in 200..299

\* C1: a handler that has started its upstream call has completed
\* store_request first, and the request it calls for is in the cache; the
\* batch job, too, calls only for requests the cache holds.
C1_StoredBeforeUpstreamCall ==
    /\ \A h \in Handlers :
        (pc[h] = "call_cops" \/ InOps(h, "call_cops")) =>
            /\ Len(ops[h]) >= 2
            /\ ops[h][1] = "store_request"
            /\ ops[h][2] = "call_cops"
            /\ Req(h).request_id \in cache.requests
    /\ bpc \in {"call_cops", "read_body", "store_response"} =>
            requests[idx].request_id \in cache.requests

C1_Witness ==
    \E h \in Handlers : pc[h] = "call_cops" /\ elapsed[h] = timeout

\* C2: in Store mode no handler ever is in, or has gone through, an
\* upstream call: it holds no upstream response and no upstream error.
C2_StoreModeNoUpstreamCall ==
    conf.proxy.mode = "Store" =>
        \A h \in Handlers :
            /\ pc[h] # "call_cops"
            /\ ~InOps(h, "call_cops")
            /\ ~cops_err[h].some
            /\ net_resp[h].some => net_resp[h].val.headers # CopsHeaders

C2_Witness ==
    /\ conf.proxy.mode = "Store"
    /\ \E h, g \in Handlers :
        /\ pc[h] = "done" /\ Parsed(h)
        /\ pc[g] = "done" /\ Rejected(g)

\* the step in which serve_req returns a response for handler h
Returns(h) == pc[h] # "done" /\ pc'[h] = "done"

Offline502 ==
    [status |-> 502,
     headers |-> [content_type |-> "application/json;charset=UTF-8",
                  server |-> "agent"],
     body |-> [statusCode |-> 502,
               message |-> "Proxy is operating offline: request stored for later replay"]]

\* C3 as claimed: in Store mode every successfully parsed request is
\* answered with the fixed offline 502, whatever the cache holds.
C3_StoreModeAlwaysOffline502 ==
    conf.proxy.mode = "Store" =>
        \A h \in Handlers :
            (pc[h] = "done" /\ Parsed(h)) => resp[h] = Some(Offline502)

\* C3 amended: in Store mode a successfully parsed request is answered
\* with the fixed offline 502 when the cache holds no response for its id
\* at the lookup of line 84, and with the cached response when it holds one.
C3_StoreModeOfflineUnlessCached ==
    [][ conf.proxy.mode = "Store" =>
          \A h \in Handlers :
            (Returns(h) /\ Parsed(h)) =>
                LET c == cache.responses[Req(h).request_id] IN
                resp'[h] = IF c.some THEN Some(CResponse_to_network(c.val))
                                     ELSE Some(Offline502) ]_vars

C3_Witness ==
    /\ conf.proxy.mode = "Store"
    /\ \E h, g \in Handlers :
        /\ pc[h] = "done" /\ Parsed(h) /\ resp[h] = Some(Offline502)
        /\ pc[g] = "done" /\ Parsed(g) /\ resp[g].val.status = 200

\* C4: every response written to the cache came from the upstream with a
\* status in 200..299, on the live path and on the batch path alike: never
\* a failure status, a synthesized 400/502 or a Store-mode request.
C4_OnlySuccessResponsesCached ==
    /\ \A h \in Handlers :
        (pc[h] = "store_response" \/ InOps(h, "store_response")) =>
            /\ conf.proxy.mode # "Store"
            /\ net_resp[h].val \in UpstreamResponses
            /\ SuccessStatus(net_resp[h].val)
            /\ ~cops_err[h].some
    /\ bpc = "store_response" =>
            bnet_resp.val \in UpstreamResponses /\ SuccessStatus(bnet_resp.val)
    /\ \A i \in bwrites :
            \E k \in 1..Len(outcomes) :
                /\ outcomes[k].request_id = i
                /\ outcomes[k].ok
                /\ outcomes[k].status \in 200..299
    /\ \A i \in ReqIds :
            cache.responses[i].some =>
                \E b \in Bodies :
                    cache.responses[i].val = [request_id |-> i, body |-> [bytes |-> b]]

C4_Witness ==
    /\ \E h \in Handlers : pc[h] = "done" /\ InOps(h, "store_response")
    /\ bwrites # {}
    /\ \E h \in Handlers : pc[h] = "done" /\ Parsed(h) /\ resp[h].val.status = 404

\* C5: a rejected request is answered with status 400 and the body
\* {statusCode: 400, message: reason}; its handler performs no cache write,
\* no cache read and no upstream call, and while only rejected requests
\* have been handled the cache is as it was.
C5_RejectedRequest ==
    /\ \A h \in Handlers :
        Rejected(h) =>
            /\ pc[h] = "done"
            /\ resp[h].some
            /\ resp[h].val.status = 400
            /\ resp[h].val.body =
                  [statusCode |-> 400, message |-> parse[h].val.err.reason]
            /\ ops[h] = << >>
            /\ ~net_resp[h].some
            /\ ~cops_err[h].some
    /\ (\A h \in Handlers : ops[h] = << >> /\ pc[h] # "store_request") =>
            cache = EmptyCache

C5_Witness ==
    \E h, g \in Handlers :
        /\ Rejected(h) /\ pc[h] = "done"
        /\ Parsed(g) /\ pc[g] = "done"

\* handler h is in Forward mode with a response or a synthesized 502 from
\* its upstream call in hand
AfterUpstreamCall(h) ==
    /\ conf.proxy.mode = "Forward"
    /\ Parsed(h)
    /\ net_resp[h].some

\* C6: in Forward mode, when serve_req returns after an upstream response
\* with a status in 200..299, what it returns is that upstream response
\* (status, headers and body), and on its return the cache holds, for the
\* request id, the response built from that upstream body.
C6_SuccessVerbatimAndCached ==
    [][ \A h \in Handlers :
          ( /\ Returns(h)
            /\ AfterUpstreamCall(h)
            /\ net_resp[h].val \in UpstreamResponses
            /\ SuccessStatus(net_resp[h].val) ) =>
              /\ resp'[h] = net_resp[h]
              /\ cache'.responses[Req(h).request_id] =
                    Some([request_id |-> Req(h).request_id,
                          body |-> net_resp[h].val.body]) ]_vars

C6_Witness ==
    /\ conf.proxy.mode = "Forward"
    /\ \E h, g \in Handlers :
        /\ h # g
        /\ pc[h] = "done" /\ pc[g] = "done"
        /\ Parsed(h) /\ Parsed(g)
        /\ Req(h).request_id = Req(g).request_id
        /\ resp[h] = Some(UpstreamResponse(200, "b1"))
        /\ resp[g] = Some(UpstreamResponse(200, "b2"))
        /\ cache.responses[Req(g).request_id].val.body = [bytes |-> "b2"]

\* C7: in Forward mode, when the upstream call gave a failure status or
\* ended in an error and the cache holds a response for the request id at
\* the lookup, serve_req returns the cached response, not the failure
\* response and not the synthesized 502.
C7_FailureFallsBackToCache ==
    [][ \A h \in Handlers :
          ( /\ Returns(h)
            /\ AfterUpstreamCall(h)
            /\ ~SuccessStatus(net_resp[h].val)
            /\ cache.responses[Req(h).request_id].some ) =>
              LET c == cache.responses[Req(h).request_id].val IN
              /\ resp'[h] = Some(CResponse_to_network(c))
              /\ resp'[h].val.status = 200
              /\ resp'[h].val.body = c.body
              /\ resp'[h] # net_resp[h] ]_vars

C7_Witness ==
    /\ conf.proxy.mode = "Forward"
    /\ bwrites # {}
    /\ \E h, g \in Handlers :
        /\ pc[h] = "done" /\ pc[g] = "done"
        /\ Parsed(h) /\ Parsed(g)
        /\ cops_err[h].some /\ resp[h].val.status = 200
        /\ net_resp[g].val.status = 404 /\ resp[g].val.status = 200

\* C8: in Forward mode, when the upstream call failed and the cache holds
\* no response for the request id at the lookup, serve_req returns the
\* failure unchanged: the upstream's own response for a failure status,
\* the 502 carrying the error text for a transport or timeout error.
C8_FailureReturnedUnchanged ==
    [][ \A h \in Handlers :
          ( /\ Returns(h)
            /\ AfterUpstreamCall(h)
            /\ ~SuccessStatus(net_resp[h].val)
            /\ ~cache.responses[Req(h).request_id].some ) =>
              /\ resp'[h] = net_resp[h]
              /\ IF cops_err[h].some
                 THEN resp'[h].val =
                        [status |-> 502,
                         headers |-> [content_type |-> "application/json;charset=UTF-8",
                                      server |-> "agent"],
                         body |-> [statusCode |-> 502,
                                   message |-> "Failed to get a response from COPS: "
                                               \o cops_err[h].val]]
                 ELSE resp'[h].val \in UpstreamResponses ]_vars

C8_Witness ==
    /\ conf.proxy.mode = "Forward"
    /\ \E h, g \in Handlers :
        /\ pc[h] = "done" /\ pc[g] = "done"
        /\ cops_err[h].some /\ resp[h] = net_resp[h]
        /\ cops_err[h].val =
             "Timeout - no response received in 59000 milliseconds"
        /\ resp[g] = Some(UpstreamResponse(404, "not found"))

\* the entries of the pass by how their upstream call ended
SuccessEntries ==
    { k \in 1..Len(outcomes) :
        outcomes[k].ok /\ outcomes[k].status \in 200..299 }
FailureEntries ==
    { k \in 1..Len(outcomes) :
        outcomes[k].ok /\ outcomes[k].status \notin 200..299 }
ErrorEntries == { k \in 1..Len(outcomes) : ~outcomes[k].ok }
PendingIds(c) ==
    { fetch_forwarding_requests(c)[k].request_id :
        k \in 1..Len(fetch_forwarding_requests(c)) }
LiveResponseWritten(i) ==
    \E h \in Handlers :
        Parsed(h) /\ Req(h).request_id = i /\ InOps(h, "store_response")

\* C9: a finished pass over N pending requests has one outcome per request
\* (S success statuses, F failure statuses, T transport errors) and the
\* counters (successes, failures) = (S, F); it wrote a response for the S
\* entries only, and each of the T entries is still pending unless a live
\* request has cached a response for it meanwhile.
C9_BatchCounters ==
    bpc = "done" =>
        /\ Len(outcomes) = Len(requests)
        /\ \A k \in 1..Len(requests) :
                outcomes[k].request_id = requests[k].request_id
        /\ successes = Cardinality(SuccessEntries)
        /\ failures = Cardinality(FailureEntries)
        /\ bwrites = { outcomes[k].request_id : k \in SuccessEntries }
        /\ \A k \in ErrorEntries :
                LET i == outcomes[k].request_id IN
                /\ i \notin bwrites
                /\ ~LiveResponseWritten(i) =>
                        ~cache.responses[i].some /\ i \in PendingIds(cache)

C9_Witness ==
    /\ bpc = "done"
    /\ Len(requests) = 2
    /\ successes = 1
    /\ failures = 0
    /\ Cardinality(ErrorEntries) = 1
    /\ PendingIds(cache) # {}

\* C10 as claimed: no handler and no batch step waits on the upstream, for
\* the response or for its body, longer than the deadline.
C10_NeverBlockedPastDeadline ==
    /\ \A h \in Handlers :
        pc[h] \in {"call_cops", "read_body"} => elapsed[h] <= timeout
    /\ bpc \in {"call_cops", "read_body"} => belapsed <= timeout

\* C11 as claimed: serve_req never returns an error to its caller: every
\* handler that has ended has returned a response.
C11_NeverReturnsError ==
    \A h \in Handlers :
        /\ pc[h] # "error"
        /\ pc[h] = "done" => resp[h].some

\* C12 as claimed: a handler or the batch pass panics only when the
\* configured upstream host does not parse.
C12_PanicOnlyOnUnparsableHost ==
    (bpc = "panic" \/ \E h \in Handlers : pc[h] = "panic") =>
        ~conf.proxy.remote_host_ok

\* deliveries whose closure has run its branch
PastRun == { d \in Deliveries : spc[d] \in {"unlock", "done"} }

\* C13: over any number of deliveries, overlapping or not, the shutdown
\* action runs at most once: the first closure through the Mutex takes and
\* runs it, every other one finds None and only logs.
C13_ShutdownActionAtMostOnce ==
    /\ fired <= 1
    /\ fired + logged = Cardinality(PastRun)
    /\ PastRun # {} => fired = 1
    /\ Cardinality({ d \in Deliveries : spc[d] \in {"run", "unlock", "done"}
                                         /\ taken[d].some }) <= 1
    /\ \A d \in Deliveries :
        spc[d] \in {"take_read", "take_write", "run", "unlock"} => mutex = d

C13_Witness ==
    /\ \A d \in Deliveries : spc[d] = "done"
    /\ fired = 1
    /\ logged = MaxDeliveries - 1

\* the synthesized 502 for the error handler h got from call_cops
CopsFailure502(h) ==
    [status |-> 502,
     headers |-> [content_type |-> "application/json;charset=UTF-8",
                  server |-> "agent"],
     body |-> [statusCode |-> 502,
               message |-> "Failed to get a response from COPS: "
                           \o cops_err[h].val]]

\* C14 as claimed: in Forward mode a transport or timeout error is always
\* answered with the cops-failure 502 carrying the error text.
C14_TransportErrorAlways502 ==
    conf.proxy.mode = "Forward" =>
        \A h \in Handlers :
            (pc[h] = "done" /\ cops_err[h].some) =>
                resp[h] = Some(CopsFailure502(h))

\* C14 amended: in Forward mode a transport or timeout error is answered
\* with the cops-failure 502 carrying the error text when the cache holds
\* no response for the request id at the lookup of line 84, and with the
\* cached response when it holds one.
C14_TransportError502UnlessCached ==
    [][ \A h \in Handlers :
          ( /\ Returns(h)
            /\ AfterUpstreamCall(h)
            /\ cops_err[h].some ) =>
              LET c == cache.responses[Req(h).request_id] IN
              resp'[h] = IF c.some THEN Some(CResponse_to_network(c.val))
                                   ELSE Some(CopsFailure502(h)) ]_vars

C14_Witness ==
    /\ conf.proxy.mode = "Forward"
    /\ \E h, g \in Handlers :
        /\ pc[h] = "done" /\ cops_err[h].some
        /\ resp[h] = Some(CopsFailure502(h))
        /\ cops_err[h].val = "Network error"
        /\ pc[g] = "done" /\ cops_err[g].some
        /\ resp[g].val.status = 200

\* how many times handler h performed the operation op
Count(h, op) == Cardinality({ k \in 1..Len(ops[h]) : ops[h][k] = op })

\* C15: handling one live request writes the cache at most twice
\* (store_request exactly once for a parsed request, store_response only
\* after a success status) and reads it at most once (fetch_response), the
\* read only after a non-success status; no request does both
\* store_response and fetch_response.
C15_CacheAccessesPerRequest ==
    \A h \in Handlers :
        /\ Count(h, "store_request") <= 1
        /\ Count(h, "store_response") <= 1
        /\ Count(h, "fetch_response") <= 1
        /\ Rejected(h) => ops[h] = << >>
        /\ (Parsed(h) /\ pc[h] = "done") => Count(h, "store_request") = 1
        /\ ops[h] # << >> => ops[h][1] = "store_request"
        /\ InOps(h, "store_response") =>
              net_resp[h].some /\ SuccessStatus(net_resp[h].val)
        /\ InOps(h, "fetch_response") =>
              net_resp[h].some /\ ~SuccessStatus(net_resp[h].val)
        /\ ~(InOps(h, "store_response") /\ InOps(h, "fetch_response"))

C15_Witness ==
    \E h, g \in Handlers :
        /\ pc[h] = "done" /\ pc[g] = "done"
        /\ ops[h] = << "store_request", "call_cops", "store_response" >>
        /\ ops[g] = << "store_request", "call_cops", "fetch_response" >>

\* the pass of forward_stored_requests is over: it returned or it panicked
PassOver == bpc \in {"done", "panic"}

\* C16: with a parsable upstream host, a pass fetches the pending requests
\* once and makes exactly one upstream call per fetched request, one after
\* the other in the fetched order and never again for the same entry; an
\* empty list makes no call, and the pass is over only after the last
\* entry.
C16_OneCallPerFetchedRequest ==
    conf.proxy.remote_host_ok =>
        /\ Len(outcomes) <= Len(requests)
        /\ \A k \in 1..Len(outcomes) :
              outcomes[k].request_id = requests[k].request_id
        /\ bpc \in {"call_cops"} => Len(outcomes) = idx - 1
        /\ bpc \in {"read_body", "store_response"} => Len(outcomes) = idx
        /\ PassOver => Len(outcomes) = Len(requests)

\* a step of forward_stored_requests
BatchStep == bvars' # bvars

\* C17: a step of the batch job that counts a failure status or logs a
\* transport error leaves the cache as it was; the job changes the cache
\* only by store_response for the current entry after a success status
\* (the stored requests stay, every other id's response stays).
C17_BatchWritesOnlySuccesses ==
    [][ BatchStep =>
          /\ (failures' # failures \/ ErrorEntries' # ErrorEntries) =>
                cache' = cache
          /\ cache' # cache =>
                /\ bpc = "store_response"
                /\ SuccessStatus(bnet_resp.val)
                /\ outcomes[idx].ok /\ SuccessStatus(outcomes[idx])
                /\ successes' = successes + 1
                /\ cache'.requests = cache.requests
                /\ \A i \in ReqIds :
                      i # requests[idx].request_id =>
                          cache'.responses[i] = cache.responses[i] ]_vars

C17_Witness ==
    /\ bpc = "done"
    /\ FailureEntries # {}
    /\ ErrorEntries # {}
    /\ \A k \in 1..Len(outcomes) :
          ~cache.responses[outcomes[k].request_id].some

\* C18: for every combination of settings, once call_cops has built its
\* connector: with corporate-proxy use enabled it is the proxy connector,
\* whatever the upstream scheme, carrying credentials exactly when basic
\* auth is enabled (or the call ended in a proxy error before any connector
\* was used); otherwise it is the TLS connector exactly when the resolved
\* scheme is https, and the plain connector if not; a host without an
\* explicit scheme is addressed over http.
C18_TransportPriority ==
    tpc = "done" =>
        LET n == conf.network
            explicit == conf.proxy.remote_host.scheme
            scheme == net_req.val.scheme
            c == client.val
        IN  /\ scheme \in {"http", "https"}
            /\ scheme = "https" <=> explicit = Some("https")
            /\ explicit = None => scheme = "http"
            /\ n.use_proxy =>
                  IF c.ok
                  THEN /\ c.connector = "ProxyConnector"
                       /\ c.authorization <=> n.use_basic_auth
                  ELSE c.err \in {"Cannot parse upstream proxy URL",
                                  "Failed to create proxy connector"}
            /\ ~n.use_proxy =>
                  /\ c.ok
                  /\ ~c.authorization
                  /\ c.connector = IF scheme = "https" THEN "HttpsConnector"
                                   ELSE "HttpConnector"
            /\ (n.use_proxy /\ n.proxy_url_ok /\ c.ok) =>
                  c.connector = "ProxyConnector"

C18_Witness ==
    /\ tpc = "done"
    /\ conf.network.use_proxy
    /\ conf.network.use_basic_auth
    /\ conf.proxy.remote_host.scheme = Some("https")
    /\ client.val.ok
    /\ client.val.connector = "ProxyConnector"
    /\ client.val.authorization

\* the step caches, for request id i, the success response handler h got
\* from the upstream
LiveSuccessStored(h, i) ==
    /\ pc[h] = "store_response"
    /\ Req(h).request_id = i
    /\ FromUpstream(net_resp[h])
    /\ SuccessStatus(net_resp[h].val)
    /\ cache'.responses[i] =
          Some(CResponse_from_network(Req(h), net_resp[h].val.body))

\* the step caches, for request id i, the success response the batch job
\* got from the upstream
BatchSuccessStored(i) ==
    /\ bpc = "store_response"
    /\ requests[idx].request_id = i
    /\ FromUpstream(bnet_resp)
    /\ SuccessStatus(bnet_resp.val)
    /\ cache'.responses[i] =
          Some(CResponse_from_network(requests[idx], bnet_resp.val.body))

\* C19: under every interleaving of live requests (either mode) and the
\* batch pass, a response cached for a request id stays cached; a step
\* that changes it is the caching of a success-status upstream response
\* for that id, by a live request or by the batch job.
C19_CachedSuccessOnlyOverwrittenBySuccess ==
    [][ \A i \in ReqIds :
          cache.responses[i].some =>
              /\ cache'.responses[i].some
              /\ cache'.responses[i] # cache.responses[i] =>
                    \/ \E h \in Handlers : LiveSuccessStored(h, i)
                    \/ BatchSuccessStored(i) ]_vars

C19_Witness ==
    \E i \in ReqIds : \E h, g \in Handlers :
        /\ Parsed(h) /\ Parsed(g)
        /\ pc[h] = "done" /\ Req(h).request_id = i
        /\ InOps(h, "store_response")
        /\ i \in bwrites
        /\ bnet_resp.some
        /\ cache.responses[i] = Some(CResponse_from_network([request_id |-> i],
                                                            bnet_resp.val.body))
        /\ cache.responses[i] #
              Some(CResponse_from_network(Req(h), net_resp[h].val.body))
        /\ pc[g] = "done" /\ Req(g).request_id = i
        /\ InOps(g, "fetch_response")
        /\ resp[g] = Some(CResponse_to_network(cache.responses[i].val))

\* C20: whatever the configured mode, Store included, the batch job takes
\* the pending requests from the cache and starts calling the upstream
\* with the first of them, and it returns only with one upstream call made
\* per pending request; in Store mode serve_req alone makes no upstream
\* call.
C20_BatchIgnoresMode ==
    [][ /\ (bpc = "idle" /\ bpc' # "idle") =>
              /\ requests' = fetch_forwarding_requests(cache)
              /\ requests' # << >> => (bpc' = "call_cops" /\ idx' = 1)
        /\ bpc' = "done" =>
              /\ Len(outcomes') = Len(requests')
              /\ \A k \in 1..Len(requests') :
                    outcomes'[k].request_id = requests'[k].request_id
        /\ conf.proxy.mode = "Store" =>
              \A h \in Handlers : \A k \in 1..Len(ops'[h]) :
                  ops'[h][k] # "call_cops" ]_vars

C20_Witness ==
    /\ conf.proxy.mode = "Store"
    /\ bpc = "done"
    /\ Len(requests) = MaxReqId
    /\ Len(outcomes) = MaxReqId
    /\ SuccessEntries # {}
    /\ bwrites # {}
    /\ \E h \in Handlers : pc[h] = "done" /\ resp[h] = Some(Offline502)

====
